---------------------------- MODULE Spec2Model ----------------------------
(***************************************************************************)
(* A model of lonpos_solver (src/lonpos_solver/__init__.py): the piece     *)
(* catalog, the orientation generators, the 2D and 3D boards with          *)
(* place / unplace / next_pos, and the backtracking generator solutions()  *)
(* with its convenience wrapper solve().                                   *)
(*                                                                         *)
(* Cells are tuples of integers.  A 2D cell of the source is <<x, y>>;     *)
(* on a board it is carried as <<x, y, 0>> on a grid of depth 1, so that   *)
(* one state machine serves Lonpos2D and Lonpos3D, whose place, unplace,   *)
(* can_place, set_board, completed and solutions are the same code.        *)
(***************************************************************************)
EXTENDS Integers, Sequences, FiniteSets, TLC

(***************************************************************************)
(* The piece catalog.                                                      *)
(***************************************************************************)
PIECES ==
  << [name |-> "A", definition |-> << <<0,0>>, <<1,0>>, <<1,1>>, <<1,2>> >>],
     [name |-> "B", definition |-> << <<0,0>>, <<0,1>>, <<1,0>>, <<1,1>>, <<1,2>> >>],
     [name |-> "C", definition |-> << <<0,0>>, <<1,0>>, <<1,1>>, <<1,2>>, <<1,3>> >>],
     [name |-> "D", definition |-> << <<0,0>>, <<1,0>>, <<1,1>>, <<1,2>>, <<1,-1>> >>],
     [name |-> "E", definition |-> << <<0,0>>, <<0,1>>, <<1,1>>, <<1,2>>, <<1,3>> >>],
     [name |-> "F", definition |-> << <<0,0>>, <<1,0>>, <<1,1>> >>],
     [name |-> "G", definition |-> << <<0,0>>, <<1,0>>, <<2,0>>, <<2,1>>, <<2,2>> >>],
     [name |-> "H", definition |-> << <<0,0>>, <<1,0>>, <<1,1>>, <<2,1>>, <<2,2>> >>],
     [name |-> "I", definition |-> << <<0,0>>, <<0,1>>, <<1,0>>, <<2,0>>, <<2,1>> >>],
     [name |-> "J", definition |-> << <<0,0>>, <<0,1>>, <<0,2>>, <<0,3>> >>],
     [name |-> "K", definition |-> << <<0,0>>, <<0,1>>, <<1,0>>, <<1,1>> >>],
     [name |-> "L", definition |-> << <<0,0>>, <<1,0>>, <<1,1>>, <<1,-1>>, <<2,0>> >>] >>

\* self.piece: index (1-based) -> piece; self.piece_idx: name -> index.
PieceIndices == 1..Len(PIECES)

Names == { PIECES[i].name : i \in PieceIndices }

RECURSIVE IndexByName(_)
IndexByName(i) ==
  IF i = 1 THEN PIECES[1].name :> 1
  ELSE (PIECES[i].name :> i) @@ IndexByName(i - 1)

PieceIdx == IndexByName(Len(PIECES))

piece_idx(name) == PieceIdx[name]

(***************************************************************************)
(* Helpers on sequences and tuples.                                        *)
(***************************************************************************)
Range(s) == { s[i] : i \in 1..Len(s) }

\* Python's tuple order on integer tuples of one length: lexicographic.
RECURSIVE TupleLess(_, _)
TupleLess(p, q) ==
  IF p = <<>> \/ q = <<>> THEN p = <<>> /\ q # <<>>
  ELSE IF Head(p) # Head(q) THEN Head(p) < Head(q)
  ELSE TupleLess(Tail(p), Tail(q))

\* Python's order on tuples of integer tuples: lexicographic, by TupleLess.
RECURSIVE CoordsLess(_, _)
CoordsLess(s, t) ==
  IF s = <<>> \/ t = <<>> THEN s = <<>> /\ t # <<>>
  ELSE IF Head(s) # Head(t) THEN TupleLess(Head(s), Head(t))
  ELSE CoordsLess(Tail(s), Tail(t))

\* sorted(...) of a sequence of integer tuples (duplicates are kept).
RECURSIVE SortedTuples(_)
SortedTuples(s) ==
  IF s = <<>> THEN <<>>
  ELSE LET rest == SortedTuples(Tail(s))
           k == Cardinality({ i \in 1..Len(rest) : ~ TupleLess(Head(s), rest[i]) })
       IN  SubSeq(rest, 1, k) \o << Head(s) >> \o SubSeq(rest, k + 1, Len(rest))

\* The list a Python set of coordinate tuples is turned into.  Python's
\* iteration order over a set is unspecified; the model lists it in
\* increasing order.
RECURSIVE ListOfSet(_)
ListOfSet(S) ==
  IF S = {} THEN <<>>
  ELSE LET m == CHOOSE a \in S : \A b \in S \ {a} : CoordsLess(a, b)
       IN  << m >> \o ListOfSet(S \ {m})

\* A sequence given as a function, as the tuple of its elements.
Tup(s) == SubSeq(s, 1, Len(s))

\* Element-wise coords - offset and coords + offset (numpy broadcasting).
Minus(p, q) == [ i \in 1..Len(p) |-> p[i] - q[i] ]

\* Board cells are triples.
Plus(p, q) == << p[1] + q[1], p[2] + q[2], p[3] + q[3] >>

Shifted(coords, pos) == [ i \in 1..Len(coords) |-> Plus(coords[i], pos) ]

Unshifted(coords, offset) == [ i \in 1..Len(coords) |-> Minus(coords[i], offset) ]

(***************************************************************************)
(* The orientation generators.                                             *)
(***************************************************************************)
\* A normalized_tuple that forgets to sort.
normalized_tuple_Unsorted(coords) == coords

\* normalized_tuple: the sorted tuple of the coordinates.
normalized_tuple(coords) == SortedTuples(coords)

\* coords @ rot90 with rot90 = [[0, -1], [1, 0]]: (x, y) -> (y, -x).
Rot90(coords) == [ i \in 1..Len(coords) |-> << coords[i][2], 0 - coords[i][1] >> ]

\* coords @ flip with flip = [[-1, 0], [0, 1]]: (x, y) -> (-x, y).
Flip(coords) == [ i \in 1..Len(coords) |-> << 0 - coords[i][1], coords[i][2] >> ]

\* A generator that leaves out the flip: rotations only.
RECURSIVE CoordsAtPass_NoFlip(_, _)
CoordsAtPass_NoFlip(definition, k) ==
  IF k = 0 THEN definition
  ELSE Rot90(CoordsAtPass_NoFlip(definition, k - 1))

\* The value of coords at the k-th pass (k = 0..7) of the two nested loops:
\* four rotations, a flip, four rotations.
RECURSIVE CoordsAtPass(_, _)
CoordsAtPass(definition, k) ==
  IF k = 0 THEN definition
  ELSE LET prev == Rot90(CoordsAtPass(definition, k - 1))
       IN  IF k = 4 THEN Flip(prev) ELSE prev

\* xy after the loops and the de-duplication: a set of normalized tuples.
Orientations2DSet(definition) ==
  { normalized_tuple(Unshifted(CoordsAtPass(definition, k),
                               CoordsAtPass(definition, k)[o])) :
      k \in 0..7, o \in 1..Len(definition) }

all_2d_rotations_and_translations(definition) ==
  ListOfSet(Orientations2DSet(definition))

\* xy @ [[1, 0, 0], [0, 1, 0]]: (a, b) -> (a, b, 0).
EmbedFlat(xy) == [ i \in 1..Len(xy) |-> << xy[i][1], xy[i][2], 0 >> ]

\* xy @ [[0, -1, 1], [-1, 0, 1]]: (a, b) -> (-b, -a, a + b).
EmbedSlantA(xy) ==
  [ i \in 1..Len(xy) |-> << 0 - xy[i][2], 0 - xy[i][1], xy[i][1] + xy[i][2] >> ]

\* xy @ [[0, 0, 1], [-1, -1, 1]]: (a, b) -> (-b, -b, a + b).
EmbedSlantB(xy) ==
  [ i \in 1..Len(xy) |-> << 0 - xy[i][2], 0 - xy[i][2], xy[i][1] + xy[i][2] >> ]

all_3d_rotations_and_translations(definition) ==
  LET result_2d == all_2d_rotations_and_translations(definition)
  IN  [ i \in 1..Len(result_2d) |-> EmbedFlat(result_2d[i]) ]
      \o [ i \in 1..Len(result_2d) |-> EmbedSlantA(result_2d[i]) ]
      \o [ i \in 1..Len(result_2d) |-> EmbedSlantB(result_2d[i]) ]

(***************************************************************************)
(* Bounds of the model.                                                    *)
(***************************************************************************)
\* At most this many cells of the playing region start blocked.
MaxBlocked == 1

\* At most this many calls by the caller (place, unplace, solutions, solve)
\* in one behaviour.
MaxOps == 2

\* The value of a blocked cell: -1 stored in a uint8 grid.
Blocked == 255

\* None, as returned by next_pos on a board with no empty cell.
None == << >>

\* The two board classes: Lonpos2D (2) and Lonpos3D (3).
Dims == {2, 3}

\* board.shape.  The first rows are the playing region; the rows after it
\* (the rack) hold one cell per catalog piece, where set_board finds the
\* pieces that are already used.
shape(d) == IF d = 2 THEN << 7, 3, 1 >> ELSE << 5, 2, 2 >>

RegionRows(d) == IF d = 2 THEN 3 ELSE 2

Cells(d) ==
  { << cx, cy, cz >> : cx \in 0..(shape(d)[1] - 1), cy \in 0..(shape(d)[2] - 1),
                      cz \in 0..(shape(d)[3] - 1) }

Region(d) == { c \in Cells(d) : c[1] < RegionRows(d) }

\* The sets of pieces that the initial grids leave unplaced; with all of
\* Names the grid holds only blocked and empty cells.
FreeChoices ==
  { {"A", "B"}, {"A", "K"}, {"F", "K"}, {"A", "F", "K"}, {"F"}, {}, Names }

(***************************************************************************)
(* The board: in_bounds, can_place, _place, set_board, completed, get_xy.  *)
(***************************************************************************)
in_bounds(d, c) ==
  /\ 0 <= c[1] /\ c[1] < shape(d)[1]
  /\ 0 <= c[2] /\ c[2] < shape(d)[2]
  /\ 0 <= c[3] /\ c[3] < shape(d)[3]

\* A can_place that checks the bounds only.
can_place_BoundsOnly(d, b, xyz) ==
  \A i \in 1..Len(xyz) : in_bounds(d, xyz[i])

can_place(d, b, xyz) ==
  /\ \A i \in 1..Len(xyz) : in_bounds(d, xyz[i])
  /\ \A i \in 1..Len(xyz) : b[xyz[i]] = 0

_place(b, xyz, index) ==
  [ c \in DOMAIN b |-> IF c \in Range(xyz) THEN index ELSE b[c] ]

\* The cells in the order of the nested scans: x, then y, then z (for the
\* 3D board z runs from the top layer down).
ScanOrderOf(d) ==
  LET sy == shape(d)[2]
      sz == shape(d)[3]
  IN  [ n \in 1..(shape(d)[1] * sy * sz) |->
          << (n - 1) \div (sy * sz),
             ((n - 1) \div sz) % sy,
             IF d = 3 THEN sz - 1 - ((n - 1) % sz) ELSE (n - 1) % sz >> ]

\* The cells in row-major order, as nonzero() lists them.
RowMajorOf(d) ==
  LET sy == shape(d)[2]
      sz == shape(d)[3]
  IN  [ n \in 1..(shape(d)[1] * sy * sz) |->
          << (n - 1) \div (sy * sz), ((n - 1) \div sz) % sy, (n - 1) % sz >> ]

\* Both orders, computed once per board class.
ScanOrders == (2 :> Tup(ScanOrderOf(2))) @@ (3 :> Tup(ScanOrderOf(3)))

RowMajors == (2 :> Tup(RowMajorOf(2))) @@ (3 :> Tup(RowMajorOf(3)))

ScanOrder(d) == ScanOrders[d]

RowMajor(d) == RowMajors[d]

\* remaining_pieces as set_board computes it: catalog order, the used ones left out.
RECURSIVE UnusedFrom(_, _)
UnusedFrom(b, i) ==
  IF i > Len(PIECES) THEN << >>
  ELSE (IF \E c \in DOMAIN b : b[c] = i THEN << >> ELSE << PIECES[i].name >>)
       \o UnusedFrom(b, i + 1)

set_board_remaining(b) == UnusedFrom(b, 1)

completed(b, rem) == Len(rem) = 0 /\ \A c \in DOMAIN b : b[c] # 0

\* A get_xyz that returns only the first cell of the piece.
get_xyz_FirstOnly(d, b, name) ==
  LET index == PieceIdx[name]
      Holds(c) == b[c] = index
  IN  IF ~ \E c \in DOMAIN b : b[c] = index THEN "absent"
      ELSE << Head(SelectSeq(RowMajors[d], Holds)) >>

\* get_xy / get_xyz: the cells holding the piece's index; "absent" stands for
\* the ValueError raised when there is none.
get_xyz(d, b, name) ==
  LET index == piece_idx(name)
      Holds(c) == b[c] = index
  IN  IF ~ \E c \in DOMAIN b : b[c] = index THEN "absent"
      ELSE SelectSeq(RowMajor(d), Holds)

\* A removal of the last element of the list, whatever it is.
Remove_Last(rem, name) == SubSeq(rem, 1, Len(rem) - 1)

\* list.remove(name): the first occurrence is removed.
Remove(rem, name) ==
  LET k == CHOOSE i \in 1..Len(rem) : rem[i] = name /\ \A j \in 1..(i - 1) : rem[j] # name
  IN  SubSeq(rem, 1, k - 1) \o SubSeq(rem, k + 1, Len(rem))

(***************************************************************************)
(* next_pos: the cell the search fills next.                               *)
(***************************************************************************)
offsets(d) ==
  IF d = 2
    THEN << <<1, 0, 0>>, <<0, 1, 0>>, <<-1, 0, 0>>, <<0, -1, 0>> >>
    ELSE << <<1, 0, 0>>, <<0, 1, 0>>, <<-1, 0, 0>>, <<0, -1, 0>>,
            <<-1, -1, 1>>, <<-1, 0, 1>>, <<0, -1, 1>>, <<0, 0, 1>>,
            <<-1, -1, -1>>, <<-1, 0, -1>>, <<0, -1, -1>>, <<0, 0, -1>> >>

\* empty: the empty cells, in scan order.
EmptyList(d, b) ==
  LET IsEmpty(c) == b[c] = 0
  IN  SelectSeq(ScanOrder(d), IsEmpty)

\* num_neighbors of p: its in-bounds neighbours that are in empty.
num_neighbors(d, b, p) ==
  Cardinality({ i \in 1..Len(offsets(d)) :
                  /\ in_bounds(d, Plus(p, offsets(d)[i]))
                  /\ b[Plus(p, offsets(d)[i])] = 0 })

\* A threshold of two neighbours on both boards.
GoodEnough_UpToTwo(d) == {0, 1, 2}

\* The cells with few enough neighbours to be returned at once.
GoodEnough(d) == IF d = 2 THEN {0, 1} ELSE {0, 1, 2}

\* The loop over empty from its i-th element on, with the candidate so far.
\* candidate is << >> (None) or << cell, candidate_neighbors >>.
RECURSIVE NextPosLoop(_, _, _, _, _)
NextPosLoop(d, b, empty, i, candidate) ==
  IF i > Len(empty) THEN (IF candidate = None THEN None ELSE candidate[1])
  ELSE LET p == empty[i]
           n == num_neighbors(d, b, p)
       IN  IF n \in GoodEnough(d) THEN p
           ELSE IF d = 2
             THEN NextPosLoop(d, b, empty, i + 1,
                    IF candidate = None /\ n = 2 THEN << p, n >> ELSE candidate)
             ELSE NextPosLoop(d, b, empty, i + 1,
                    IF candidate = None \/ n < candidate[2] THEN << p, n >>
                    ELSE candidate)

next_pos(d, b) == NextPosLoop(d, b, EmptyList(d, b), 1, None)

(***************************************************************************)
(* self.orientations: per piece index, the list of its orientations.       *)
(***************************************************************************)
orientations2D ==
  Tup([ i \in PieceIndices |->
      LET coord_list == all_2d_rotations_and_translations(PIECES[i].definition)
      IN  Tup([ k \in 1..Len(coord_list) |-> Tup(EmbedFlat(coord_list[k])) ]) ])

orientations3D ==
  Tup([ i \in PieceIndices |->
      LET coord_list == all_3d_rotations_and_translations(PIECES[i].definition)
      IN  Tup([ k \in 1..Len(coord_list) |-> Tup(coord_list[k]) ]) ])

orientations(d) == IF d = 2 THEN orientations2D ELSE orientations3D

(***************************************************************************)
(* place and unplace, as functions of the board state.  Each gives the     *)
(* error it raises ("none" when it returns) and the state it leaves.       *)
(***************************************************************************)
\* set(normalized_tuple(xyz_) for xyz_ in self.orientations[index]), per index.
ValidOf(d) ==
  Tup([ index \in PieceIndices |->
          { normalized_tuple(orientations(d)[index][k]) :
              k \in 1..Len(orientations(d)[index]) } ])

Valid2D == ValidOf(2)

Valid3D == ValidOf(3)

\* A place that does not compare the cells with the orientations of the piece.
place_AnyShape(d, b, rem, name, xyz) ==
  LET index == piece_idx(name)
  IN  IF name \notin Range(rem)
        THEN [err |-> "AssertionError", board |-> b, remaining |-> rem]
      ELSE IF ~ can_place(d, b, xyz)
        THEN [err |-> "AssertionError", board |-> b, remaining |-> rem]
      ELSE [err |-> "none", board |-> _place(b, xyz, index),
            remaining |-> Remove(rem, name)]

\* place: three checks, then _place and remaining_pieces.remove(name).
place(d, b, rem, name, xyz) ==
  LET index == piece_idx(name)
      valid_xyz == IF d = 2 THEN Valid2D[index] ELSE Valid3D[index]
  IN  IF name \notin Range(rem)
        THEN [err |-> "AssertionError", board |-> b, remaining |-> rem]
      ELSE IF normalized_tuple(Unshifted(xyz, xyz[1])) \notin valid_xyz
        THEN [err |-> "AssertionError", board |-> b, remaining |-> rem]
      ELSE IF ~ can_place(d, b, xyz)
        THEN [err |-> "AssertionError", board |-> b, remaining |-> rem]
      ELSE [err |-> "none", board |-> _place(b, xyz, index),
            remaining |-> Remove(rem, name)]

RECURSIVE unplace(_, _, _, _)
unplace(d, b, rem, names) ==
  IF names = << >> THEN [err |-> "none", board |-> b, remaining |-> rem]
  ELSE LET xyz == get_xyz(d, b, Head(names))
       IN  IF xyz = "absent"
             THEN [err |-> "ValueError", board |-> b, remaining |-> rem]
           ELSE unplace(d, _place(b, xyz, 0), Append(rem, Head(names)), Tail(names))

(***************************************************************************)
(* The state.                                                              *)
(***************************************************************************)
VARIABLES
  dim,               \* 2: a Lonpos2D instance, 3: a Lonpos3D instance
  given,             \* the grid handed to set_board
  board,             \* self.board: cell -> 0 (empty), 255 (blocked) or a piece index
  remaining_pieces,  \* self.remaining_pieces: a list of names
  stack,             \* the frames of solutions() that are inside their loops
  pc,                \* "idle", or where the generator stands: "enter", "loop", "yielded"
  mode,              \* who drives the generator: "solve_all" (the caller) or "solve_one" (solve())
  yields,            \* the boards yielded to the caller of the current generator
  outcome,           \* how the last call of solutions() / solve() ended
  start,             \* board and remaining_pieces when that call began
  last,              \* the last direct call of place / unplace and the error it raised
  pre,               \* board and remaining_pieces before that direct call
  trip,              \* set when unplace(p) has just undone place(p): the state before the place
  ops,               \* calls made by the caller so far
  probe,             \* the value returned by a call of next_pos() on its own
  geo                \* a definition handed to the orientation generators, and what they returned

vars == << dim, given, board, remaining_pieces, stack, pc, mode, yields, outcome, start,
           last, pre, trip, ops, probe, geo >>

\* The variables of the calls of next_pos() and of the generators on their own.
auxVars == << probe, geo >>

NoProbe == "unset"

NoGeo == [definition |-> << >>, done2 |-> FALSE, result_2d |-> << >>,
          done3 |-> FALSE, result_3d |-> << >>]

searchVars == << stack, pc, mode, yields, outcome, start >>

callVars == << last, pre, trip >>

Snapshot == [board |-> board, remaining |-> remaining_pieces]

NoTrip == [on |-> FALSE, name |-> "", board |-> << >>, remaining |-> << >>]

(***************************************************************************)
(* The initial grids handed to set_board at construction.                  *)
(***************************************************************************)
\* The catalog index whose rack cell c is (the rack cells follow the region
\* in row-major order), or a number that is no index.
RackIndex(d, c) ==
  (c[1] - RegionRows(d)) * shape(d)[2] * shape(d)[3] + c[2] * shape(d)[3] + c[3] + 1

\* A grid whose region is empty but for the cells of blockedCells, and
\* whose rack holds the index of every catalog piece not named in free.
InitGrid(d, blockedCells, free) ==
  [ c \in Cells(d) |->
      IF c \in Region(d) THEN (IF c \in blockedCells THEN Blocked ELSE 0)
      ELSE IF RackIndex(d, c) \in PieceIndices /\ PIECES[RackIndex(d, c)].name \notin free
        THEN RackIndex(d, c)
      ELSE Blocked ]

InitGrids(d) ==
  { InitGrid(d, bl, free) :
      bl \in { s \in SUBSET Region(d) : Cardinality(s) <= MaxBlocked },
      free \in FreeChoices }

\* __init__ followed by set_board(grid).
Init ==
  /\ \E d \in Dims : dim = d /\ board \in InitGrids(d)
  /\ given = board
  /\ remaining_pieces = set_board_remaining(board)
  /\ stack = << >>
  /\ pc = "idle"
  /\ mode = "none"
  /\ yields = << >>
  /\ outcome = "none"
  /\ start = Snapshot
  /\ last = [op |-> "none", err |-> "none", names |-> << >>]
  /\ pre = Snapshot
  /\ trip = NoTrip
  /\ ops = 0
  /\ probe = NoProbe
  /\ geo = NoGeo

(***************************************************************************)
(* solutions(): the generator, one action per stretch of its code.         *)
(***************************************************************************)
\* xy = xy + pos for the candidate (n, k): the k-th orientation of the n-th
\* name of the frame's copy of remaining_pieces.
CandidateCells(d, frame, n, k) ==
  Shifted(orientations(d)[piece_idx(frame.names[n])][k], frame.pos)

\* The orientations k of the n-th name that the two nested loops still have
\* to try after (ni, oi) and that pass can_place; the loops skip the others
\* (continue).
PlaceableAt(d, b, frame, n) ==
  { k \in 1..Len(orientations(d)[piece_idx(frame.names[n])]) :
      /\ n > frame.ni \/ k > frame.oi
      /\ can_place(d, b, CandidateCells(d, frame, n, k)) }

Least(S) == CHOOSE m \in S : \A j \in S : m <= j

\* The first candidate the loops place after (ni, oi), or None when they run out.
NextPlaceable(d, b, frame) ==
  LET ns == { n \in frame.ni..Len(frame.names) : PlaceableAt(d, b, frame, n) # {} }
  IN  IF ns = {} THEN None
      ELSE << Least(ns), Least(PlaceableAt(d, b, frame, Least(ns))) >>

\* A call (by the caller, or by solve()) creates the generator and runs it.
\* Only Lonpos2D defines solve().
Start(m) ==
  /\ pc = "idle"
  /\ ops < MaxOps
  /\ m = "solve_one" => dim = 2
  /\ ops' = ops + 1
  /\ mode' = m
  /\ pc' = "enter"
  /\ stack' = << >>
  /\ yields' = << >>
  /\ outcome' = "running"
  /\ start' = Snapshot
  /\ last' = [op |-> m, err |-> "none", names |-> << >>]
  /\ trip' = NoTrip
  /\ UNCHANGED << auxVars, dim, given, board, remaining_pieces, pre >>

\* if not self.remaining_pieces: yield self.board.copy()
\* Under solve() the yielded board becomes self.board, remaining_pieces is
\* cleared and the generator is dropped.
EnterYield ==
  /\ pc = "enter"
  /\ remaining_pieces = << >>
  /\ yields' = Append(yields, board)
  /\ IF mode = "solve_one"
       THEN /\ board' = board
            /\ remaining_pieces' = << >>
            /\ stack' = << >>
            /\ pc' = "idle"
            /\ outcome' = "solved"
       ELSE /\ pc' = "yielded"
            /\ UNCHANGED << board, remaining_pieces, stack, outcome >>
  /\ UNCHANGED << auxVars, dim, given, mode, start, ops, callVars >>

\* else: pos = self.next_pos(); for name in self.remaining_pieces.copy(): ...
EnterSearch ==
  /\ pc = "enter"
  /\ remaining_pieces # << >>
  /\ next_pos(dim, board) # None
  /\ stack' = Append(stack, [pos |-> next_pos(dim, board), names |-> remaining_pieces,
                             ni |-> 1, oi |-> 0, xy |-> << >>, board_at |-> board])
  /\ pc' = "loop"
  /\ UNCHANGED << auxVars, dim, given, board, remaining_pieces, mode, yields, outcome, start, ops,
                  callVars >>

\* With pieces remaining and no empty cell pos is None, and xy + pos raises
\* TypeError in the first pass of the loops.  The exception leaves through
\* every frame; none of them restores anything.
EnterRaise ==
  /\ pc = "enter"
  /\ remaining_pieces # << >>
  /\ next_pos(dim, board) = None
  /\ stack' = << >>
  /\ pc' = "idle"
  /\ outcome' = "TypeError"
  /\ UNCHANGED << auxVars, dim, given, board, remaining_pieces, mode, yields, start, ops, callVars >>

\* The next candidate that passes can_place is placed and solutions() recurses.
TryNext ==
  /\ pc = "loop"
  /\ LET top == stack[Len(stack)]
         c == NextPlaceable(dim, board, top)
     IN  /\ c # None
         /\ LET xy == Tup(CandidateCells(dim, top, c[1], c[2]))
                name == top.names[c[1]]
            IN  /\ board' = _place(board, xy, piece_idx(name))
                /\ remaining_pieces' = Remove(remaining_pieces, name)
                /\ stack' = [stack EXCEPT ![Len(stack)] =
                               [top EXCEPT !.ni = c[1], !.oi = c[2], !.xy = xy]]
  /\ pc' = "enter"
  /\ UNCHANGED << auxVars, dim, given, mode, yields, outcome, start, ops, callVars >>

\* A return that puts the piece back in the list but leaves its cells on the grid.
ReturnTo_NoClear(stk) ==
  IF stk = << >>
    THEN /\ pc' = "idle"
         /\ outcome' = IF mode = "solve_one" THEN "StopIteration" ELSE "exhausted"
         /\ stack' = << >>
         /\ UNCHANGED << board, remaining_pieces >>
    ELSE /\ remaining_pieces' = Append(remaining_pieces, stk[Len(stk)].names[stk[Len(stk)].ni])
         /\ stack' = stk
         /\ pc' = "loop"
         /\ UNCHANGED << board, outcome >>

\* A call of solutions() has returned to the frames of stk: the innermost of
\* them undoes its placement and goes on with its loops; with no frame left
\* the generator is exhausted, which next() reports as StopIteration.
ReturnTo(stk) ==
  IF stk = << >>
    THEN /\ pc' = "idle"
         /\ outcome' = IF mode = "solve_one" THEN "StopIteration" ELSE "exhausted"
         /\ stack' = << >>
         /\ UNCHANGED << board, remaining_pieces >>
    ELSE LET parent == stk[Len(stk)]
         IN  /\ board' = _place(board, parent.xy, 0)
             /\ remaining_pieces' = Append(remaining_pieces, parent.names[parent.ni])
             /\ stack' = stk
             /\ pc' = "loop"
             /\ UNCHANGED outcome

\* The loops of the innermost frame are over: it returns.
Return ==
  /\ pc = "loop"
  /\ LET top == stack[Len(stack)]
     IN  NextPlaceable(dim, board, top) = None
  /\ ReturnTo(SubSeq(stack, 1, Len(stack) - 1))
  /\ UNCHANGED << auxVars, dim, given, mode, yields, start, ops, callVars >>

\* The caller asks for the next solution: the call that yielded returns.
Resume ==
  /\ pc = "yielded"
  /\ ReturnTo(stack)
  /\ UNCHANGED << auxVars, dim, given, mode, yields, start, ops, callVars >>

\* The caller stops pulling solutions: the generator and its frames are dropped.
Abandon ==
  /\ pc = "yielded"
  /\ stack' = << >>
  /\ pc' = "idle"
  /\ outcome' = "abandoned"
  /\ UNCHANGED << auxVars, dim, given, board, remaining_pieces, mode, yields, start, ops, callVars >>

(***************************************************************************)
(* Direct calls of place and unplace, made while no generator is running.  *)
(***************************************************************************)
\* The names and the coordinate arrays the calls are made with: every
\* orientation of the pieces of PlaceShapes, moved onto each of the anchors.
PlaceNames == {"F", "L"}

PlaceShapes == {"F", "K"}

PlaceAnchors == { << 0, 0, 0 >> }

PlaceArraysOf(d) ==
  UNION { { Tup(Shifted(orientations(d)[piece_idx(n)][k], a)) :
              k \in 1..Len(orientations(d)[piece_idx(n)]), a \in PlaceAnchors } :
          n \in PlaceShapes }

PlaceArrays2D == PlaceArraysOf(2)

PlaceArrays3D == PlaceArraysOf(3)

PlaceArrays(d) == IF d = 2 THEN PlaceArrays2D ELSE PlaceArrays3D

UnplaceArgs ==
  { << n >> : n \in PlaceNames } \cup { << n, m >> : n \in PlaceNames, m \in PlaceNames }

Place(name, xyz) ==
  /\ pc = "idle"
  /\ ops < MaxOps
  /\ LET r == place(dim, board, remaining_pieces, name, xyz)
     IN  /\ board' = r.board
         /\ remaining_pieces' = r.remaining
         /\ last' = [op |-> "place", err |-> r.err, names |-> << name >>]
  /\ pre' = Snapshot
  /\ trip' = NoTrip
  /\ ops' = ops + 1
  /\ UNCHANGED << auxVars, dim, given, searchVars >>

Unplace(names) ==
  /\ pc = "idle"
  /\ ops < MaxOps
  /\ LET r == unplace(dim, board, remaining_pieces, names)
     IN  /\ board' = r.board
         /\ remaining_pieces' = r.remaining
         /\ last' = [op |-> "unplace", err |-> r.err, names |-> names]
         /\ trip' = IF last.op = "place" /\ last.err = "none" /\ last.names = names
                       /\ r.err = "none"
                     THEN [on |-> TRUE, name |-> names[1], board |-> pre.board,
                           remaining |-> pre.remaining]
                     ELSE NoTrip
  /\ pre' = Snapshot
  /\ ops' = ops + 1
  /\ UNCHANGED << auxVars, dim, given, searchVars >>

Next ==
  \/ \E name \in PlaceNames, xyz \in PlaceArrays(dim) : Place(name, xyz)
  \/ \E names \in UnplaceArgs : Unplace(names)
  \/ Start("solve_all")
  \/ Start("solve_one")
  \/ EnterYield
  \/ EnterSearch
  \/ EnterRaise
  \/ TryNext
  \/ Return
  \/ Resume
  \/ Abandon

Spec == Init /\ [][Next]_vars

(***************************************************************************)
(* Exact covers, stated without the solver: a piece may lie in any image   *)
(* of its definition under the eight symmetries of the square, in any of   *)
(* the planes of the board class, at any translation.                      *)
(***************************************************************************)
Symmetry(g, c) ==
  CASE g = 1 -> << c[1], c[2] >>
    [] g = 2 -> << 0 - c[1], c[2] >>
    [] g = 3 -> << c[1], 0 - c[2] >>
    [] g = 4 -> << 0 - c[1], 0 - c[2] >>
    [] g = 5 -> << c[2], c[1] >>
    [] g = 6 -> << 0 - c[2], c[1] >>
    [] g = 7 -> << c[2], 0 - c[1] >>
    [] g = 8 -> << 0 - c[2], 0 - c[1] >>

\* The planes a piece may lie in: the grid plane of the 2D board; the flat
\* plane and the two slanted planes of the 3D board.
InPlane(d, h, c) ==
  CASE h = 1 -> << c[1], c[2], 0 >>
    [] h = 2 -> << 0 - c[2], 0 - c[1], c[1] + c[2] >>
    [] h = 3 -> << 0 - c[2], 0 - c[2], c[1] + c[2] >>

Planes(d) == IF d = 2 THEN {1} ELSE {1, 2, 3}

EmptyCells(b) == { c \in DOMAIN b : b[c] = 0 }

\* The sets of empty cells of b that piece i can cover.
PlacementsIn(d, b, i) ==
  LET def == PIECES[i].definition
      Image(g, h, e) ==
        LET first == InPlane(d, h, Symmetry(g, def[1]))
        IN  { << InPlane(d, h, Symmetry(g, def[j]))[1] - first[1] + e[1],
                 InPlane(d, h, Symmetry(g, def[j]))[2] - first[2] + e[2],
                 InPlane(d, h, Symmetry(g, def[j]))[3] - first[3] + e[3] >> :
              j \in 1..Len(def) }
  IN  { S \in { Image(g, h, e) : g \in 1..8, h \in Planes(d), e \in EmptyCells(b) } :
          S \subseteq EmptyCells(b) }

\* The grids that extend b by one placement of every piece of names and
\* have no empty cell left.
RECURSIVE ExactCovers(_, _, _)
ExactCovers(d, b, names) ==
  IF names = {} THEN (IF EmptyCells(b) = {} THEN {b} ELSE {})
  ELSE LET n == CHOOSE m \in names : TRUE
       IN  UNION { ExactCovers(d, [ c \in DOMAIN b |-> IF c \in S THEN piece_idx(n) ELSE b[c] ],
                               names \ {n}) :
                   S \in PlacementsIn(d, b, piece_idx(n)) }

RECURSIVE TotalCells(_)
TotalCells(rem) ==
  IF rem = << >> THEN 0
  ELSE Len(PIECES[piece_idx(Head(rem))].definition) + TotalCells(Tail(rem))

\* The board the last call of solutions() began on has exactly as many empty
\* cells as its remaining pieces have cells.
StartedExact == Cardinality(EmptyCells(start.board)) = TotalCells(start.remaining)

\* The caller has pulled solutions() until it was exhausted.
Exhausted == pc = "idle" /\ mode = "solve_all" /\ outcome = "exhausted"

\* C1: solutions(), run to exhaustion from a board whose empty cells number
\* exactly the cells of the remaining pieces, yields every exact cover of the
\* empty cells by the remaining pieces, and each of them once.
C1_AllTilingsOnce ==
  (Exhausted /\ StartedExact) =>
    /\ Range(yields) = ExactCovers(dim, start.board, Range(start.remaining))
    /\ Cardinality(Range(yields)) = Len(yields)

\* C1 witness: an exhausted enumeration from such a board that yielded several tilings.
C1_Witness == Exhausted /\ StartedExact /\ Len(yields) >= 4

C1_Witness3D == Exhausted /\ StartedExact /\ dim = 3 /\ Len(yields) >= 1

(***************************************************************************)
(* Yielded boards (C2).                                                    *)
(***************************************************************************)
\* Every catalog piece's index appears in grid g.
AllPiecesOn(g) == \A i \in PieceIndices : \E c \in DOMAIN g : g[c] = i

NoEmptyCell(g) == \A c \in DOMAIN g : g[c] # 0

\* C2 as stated: every yielded grid, from any initial grid, is complete: no
\* empty cell, remaining_pieces empty at the yield, every piece on the grid.
C2_YieldsComplete ==
  /\ \A i \in 1..Len(yields) : NoEmptyCell(yields[i]) /\ AllPiecesOn(yields[i])
  /\ pc = "yielded" => completed(board, remaining_pieces)

\* C2 amended: every yielded grid holds every catalog piece and is yielded
\* with remaining_pieces empty; it has no empty cell exactly when the board
\* the call began on had as many empty cells as its remaining pieces have cells.
C2_YieldsCompleteIffExact ==
  /\ \A i \in 1..Len(yields) :
       /\ AllPiecesOn(yields[i])
       /\ NoEmptyCell(yields[i]) <=> StartedExact
  /\ pc = "yielded" =>
       /\ remaining_pieces = << >>
       /\ board = yields[Len(yields)]
       /\ completed(board, remaining_pieces) <=> StartedExact

\* C2 witness: a complete board yielded by a search that placed several pieces.
C2_Witness ==
  pc = "yielded" /\ StartedExact /\ Len(start.remaining) >= 2
  /\ completed(board, remaining_pieces)

(***************************************************************************)
(* Direct calls (C3, C4).                                                  *)
(***************************************************************************)
\* C3 as stated: place(p, cells) followed by unplace(p) returns the grid and
\* the list remaining_pieces (same contents in the same order) to their
\* state before the place.
C3_RoundTripExact ==
  trip.on => board = trip.board /\ remaining_pieces = trip.remaining

\* C3 amended: place(p, cells) followed by unplace(p) returns the grid to its
\* state before the place and remaining_pieces to the same contents, with p
\* moved to the end of the list.
C3_RoundTripMovesToEnd ==
  trip.on =>
    /\ board = trip.board
    /\ remaining_pieces = Append(Remove(trip.remaining, trip.name), trip.name)

\* C3 witness: a completed round trip of a piece that was not last in the list.
C3_Witness ==
  trip.on /\ trip.remaining[Len(trip.remaining)] # trip.name

\* C4 as stated: a direct call of place or unplace that reports an error
\* leaves the grid and remaining_pieces as they were before the call.
C4_FailedCallChangesNothing ==
  (last.op \in {"place", "unplace"} /\ last.err # "none") =>
    board = pre.board /\ remaining_pieces = pre.remaining

(***************************************************************************)
(* remaining_pieces against the grid (C7).                                 *)
(***************************************************************************)
\* C7: remaining_pieces holds exactly the catalog pieces whose index is in
\* no cell of the grid, each once.
C7_RemainingMatchesGrid ==
  /\ Range(remaining_pieces)
       = { PIECES[i].name : i \in { j \in PieceIndices : \A c \in DOMAIN board : board[c] # j } }
  /\ Cardinality(Range(remaining_pieces)) = Len(remaining_pieces)

\* C7 witness: the caller stopped pulling solutions and then unplaced a piece.
C7_Witness ==
  outcome = "abandoned" /\ last.op = "unplace" /\ last.err = "none"
  /\ remaining_pieces # << >>

(***************************************************************************)
(* solve() (C8) and dead ends (C9).                                        *)
(***************************************************************************)
\* solve() has returned or raised, and the caller has made no call since.
SolveEnded == pc = "idle" /\ last.op = "solve_one"

\* C8 as stated: when solutions() yields nothing solve() fails with an error,
\* does not clear remaining_pieces and leaves the grid as it was before the
\* call; otherwise it sets the grid to the first yielded board and clears
\* remaining_pieces.
C8_SolveOne ==
  SolveEnded =>
    IF yields = << >>
      THEN /\ outcome \in {"StopIteration", "TypeError"}
           /\ Range(remaining_pieces) = Range(start.remaining)
           /\ board = start.board
      ELSE /\ outcome = "solved"
           /\ board = yields[1]
           /\ remaining_pieces = << >>

\* C9 as stated: a board with pieces remaining and no empty cell is a dead
\* end of the search that raises no error.
C9_DeadEndRaisesNothing == outcome # "TypeError"

(***************************************************************************)
(* Backtracking restores the board (C10).                                  *)
(***************************************************************************)
Count(seq, e) == Cardinality({ i \in 1..Len(seq) : seq[i] = e })

SamePieces(s, t) == \A n \in Names : Count(s, n) = Count(t, n)

\* The last call of solutions() / solve() ran out of candidates, and the
\* caller has made no call since.
RanOut ==
  /\ pc = "idle"
  /\ last.op \in {"solve_all", "solve_one"}
  /\ outcome \in {"exhausted", "StopIteration"}

\* C10: whenever the search is back in the loops of a frame, the grid is the
\* grid that frame began with and remaining_pieces holds the pieces it began
\* with; when the search has run out, the grid is the grid at the start of
\* the call and remaining_pieces holds the same pieces.
C10_BacktrackRestores ==
  /\ pc = "loop" =>
       /\ board = stack[Len(stack)].board_at
       /\ SamePieces(remaining_pieces, stack[Len(stack)].names)
  /\ RanOut =>
       /\ board = start.board
       /\ SamePieces(remaining_pieces, start.remaining)

\* C10 witness: the search ran out after yielding, so placements were made
\* at every depth and undone.
C10_Witness == RanOut /\ Len(yields) >= 2 /\ Len(start.remaining) >= 2

(***************************************************************************)
(* next_pos() on its own (C5): every grid of blocked and empty cells.      *)
(***************************************************************************)
ProbeGrids(d) ==
  { [ c \in Cells(d) |-> IF c \in free THEN 0 ELSE Blocked ] : free \in SUBSET Region(d) }

InitNextPos ==
  /\ \E d \in Dims : dim = d /\ board \in ProbeGrids(d)
  /\ given = board
  /\ remaining_pieces = set_board_remaining(board)
  /\ stack = << >>
  /\ pc = "idle"
  /\ mode = "none"
  /\ yields = << >>
  /\ outcome = "none"
  /\ start = Snapshot
  /\ last = [op |-> "none", err |-> "none", names |-> << >>]
  /\ pre = Snapshot
  /\ trip = NoTrip
  /\ ops = 0
  /\ probe = NoProbe
  /\ geo = NoGeo

CallNextPos ==
  /\ probe = NoProbe
  /\ probe' = next_pos(dim, board)
  /\ UNCHANGED << dim, given, board, remaining_pieces, searchVars, callVars, ops, geo >>

NextNextPos == CallNextPos

SpecNextPos == InitNextPos /\ [][NextNextPos]_vars

\* The empty neighbours of p: the empty cells at one of the offsets from p.
EmptyNeighbours(d, b, p) ==
  { q \in EmptyCells(b) : \E i \in 1..Len(offsets(d)) : q = Plus(p, offsets(d)[i]) }

\* The empty cells with at most n empty neighbours.
Forced(d, b, n) == { p \in EmptyCells(b) : Cardinality(EmptyNeighbours(d, b, p)) <= n }

\* The position of cell p in the scan.
ScanIndex(d, p) == CHOOSE i \in 1..Len(ScanOrder(d)) : ScanOrder(d)[i] = p

FirstInScan(d, S) ==
  CHOOSE p \in S : \A q \in S : ScanIndex(d, p) <= ScanIndex(d, q)

\* C5 as stated: on both boards, when some empty cell has 0 or 1 empty
\* neighbours next_pos returns the first such cell in scan order.
C5_FirstForcedCell ==
  (probe # NoProbe /\ Forced(dim, board, 1) # {}) =>
    probe = FirstInScan(dim, Forced(dim, board, 1))

\* C5 amended: on the 2D board, when some empty cell has 0 or 1 empty
\* neighbours next_pos returns the first such cell in scan order; on the 3D
\* board it returns the first cell in scan order with 0, 1 or 2 empty
\* neighbours, whenever there is one.
C5_FirstGoodEnoughCell ==
  /\ (probe # NoProbe /\ dim = 2 /\ Forced(dim, board, 1) # {}) =>
       probe = FirstInScan(dim, Forced(dim, board, 1))
  /\ (probe # NoProbe /\ dim = 3 /\ Forced(dim, board, 2) # {}) =>
       probe = FirstInScan(dim, Forced(dim, board, 2))

\* C5 witnesses: a 2D board where a forced cell comes after other empty
\* cells, and a 3D board where the cell returned has two empty neighbours
\* although a cell with fewer exists.
C5_Witness ==
  /\ probe # NoProbe /\ dim = 2 /\ Forced(dim, board, 1) # {}
  /\ probe # EmptyList(dim, board)[1]

C5_Witness3D ==
  /\ probe # NoProbe /\ dim = 3 /\ Forced(dim, board, 1) # {}
  /\ Cardinality(EmptyNeighbours(dim, board, probe)) = 2

(***************************************************************************)
(* The orientation generators on their own (C6).                           *)
(***************************************************************************)
\* Bounds of the definitions tried besides those of the catalog.
MaxDefLen == 2

MaxCoord == 1

Box == { << cx, cy >> : cx \in 0..MaxCoord, cy \in 0..MaxCoord }

RECURSIVE DistinctSeqs(_)
DistinctSeqs(n) ==
  IF n = 0 THEN { << >> }
  ELSE { Append(q, c) : q \in DistinctSeqs(n - 1), c \in Box } \ { q \in
         { Append(q, c) : q \in DistinctSeqs(n - 1), c \in Box } :
           Cardinality(Range(q)) < Len(q) }

GeomInputs ==
  { PIECES[i].definition : i \in PieceIndices }
    \cup UNION { DistinctSeqs(n) : n \in 1..MaxDefLen }

InitGeom ==
  /\ dim = 2
  /\ board = InitGrid(2, {}, {})
  /\ given = board
  /\ remaining_pieces = << >>
  /\ stack = << >>
  /\ pc = "idle"
  /\ mode = "none"
  /\ yields = << >>
  /\ outcome = "none"
  /\ start = Snapshot
  /\ last = [op |-> "none", err |-> "none", names |-> << >>]
  /\ pre = Snapshot
  /\ trip = NoTrip
  /\ ops = 0
  /\ probe = NoProbe
  /\ \E definition \in GeomInputs : geo = [NoGeo EXCEPT !.definition = definition]

Call2D ==
  /\ ~ geo.done2
  /\ geo' = [geo EXCEPT !.done2 = TRUE,
                        !.result_2d = Tup(all_2d_rotations_and_translations(geo.definition))]
  /\ UNCHANGED << dim, given, board, remaining_pieces, searchVars, callVars, ops, probe >>

Call3D ==
  /\ ~ geo.done3
  /\ geo' = [geo EXCEPT !.done3 = TRUE,
                        !.result_3d = Tup(all_3d_rotations_and_translations(geo.definition))]
  /\ UNCHANGED << dim, given, board, remaining_pieces, searchVars, callVars, ops, probe >>

NextGeom == Call2D \/ Call3D

SpecGeom == InitGeom /\ [][NextGeom]_vars

\* No two orientations of the list are equal as sets of coordinates.
NoTwoEqual(list) ==
  \A i \in 1..Len(list) : \A j \in 1..Len(list) :
    i # j => Range(list[i]) # Range(list[j])

\* Every orientation of the list has as many distinct cells as the definition.
SameSize(list, definition) ==
  \A i \in 1..Len(list) : Cardinality(Range(list[i])) = Cardinality(Range(definition))

\* The cells of the definition all lie on one diagonal line (a single cell does).
OnOneDiagonal(definition) ==
  \/ \A i \in 1..Len(definition) :
       definition[i][1] - definition[1][1] = definition[i][2] - definition[1][2]
  \/ \A i \in 1..Len(definition) :
       definition[i][1] - definition[1][1] = definition[1][2] - definition[i][2]

\* C6 as stated: for every definition, neither the 2D nor the 3D result
\* holds two orientations equal as coordinate sets, and every orientation has
\* as many cells as the definition.
C6_NoDuplicateOrientations ==
  /\ geo.done2 => NoTwoEqual(geo.result_2d) /\ SameSize(geo.result_2d, geo.definition)
  /\ geo.done3 => NoTwoEqual(geo.result_3d) /\ SameSize(geo.result_3d, geo.definition)

\* C6 amended: the 2D result never holds two equal orientations, the 3D
\* result holds none unless the cells of the definition all lie on one
\* diagonal line (no catalog piece does), and in both every orientation has
\* as many cells as the definition.
C6_NoDuplicatesOffDiagonal ==
  /\ geo.done2 => NoTwoEqual(geo.result_2d) /\ SameSize(geo.result_2d, geo.definition)
  /\ geo.done3 =>
       /\ SameSize(geo.result_3d, geo.definition)
       /\ NoTwoEqual(geo.result_3d) <=> ~ OnOneDiagonal(geo.definition)

\* C6 witness: both generators have run on a catalog piece with mirror images.
C6_Witness ==
  /\ geo.done2 /\ geo.done3
  /\ geo.definition = PIECES[1].definition
  /\ Len(geo.result_2d) = 32 /\ Len(geo.result_3d) = 96

(***************************************************************************)
(* Placements on a grid that began with blocked and empty cells (C11).     *)
(***************************************************************************)
\* The grid handed to set_board held only blocked and empty cells.
FreshStart == \A c \in DOMAIN given : given[c] \in {0, Blocked}

\* The cells of grid g that hold index k.
CellsOf(g, k) == { c \in DOMAIN g : g[c] = k }

\* S is an image of the definition of piece k under a symmetry of the
\* square, in a plane of the board class, translated to some anchor.
IsPlacement(d, k, S) ==
  LET def == PIECES[k].definition
      At(g, h, j) == InPlane(d, h, Symmetry(g, def[j]))
  IN  \E g \in 1..8, h \in Planes(d), c0 \in S :
        S = { << At(g, h, j)[1] - At(g, h, 1)[1] + c0[1],
                 At(g, h, j)[2] - At(g, h, 1)[2] + c0[2],
                 At(g, h, j)[3] - At(g, h, 1)[3] + c0[3] >> : j \in 1..Len(def) }

\* The pieces on the grid.
OnBoard == { k \in PieceIndices : CellsOf(board, k) # {} }

\* C11: starting from a grid of blocked and empty cells, in every state
\* reached by place, unplace and the steps of solutions(), the cells that hold
\* index k are exactly one orientation of piece k translated to some anchor
\* (so no placement overwrote a cell of another piece and no undo cleared
\* part of one), and every cell blocked in the initial grid is still blocked.
C11_PlacementsIntact ==
  FreshStart =>
    /\ \A k \in OnBoard : IsPlacement(dim, k, CellsOf(board, k))
    /\ \A c \in DOMAIN given : given[c] = Blocked => board[c] = Blocked

\* C11 witness: after a direct place on such a grid, the search has undone
\* a placement of its own (the list is no longer in catalog order) and has a
\* piece of its own on the grid.
C11_Witness ==
  /\ FreshStart
  /\ \E c \in DOMAIN given : given[c] = Blocked
  /\ start.board # given
  /\ pc = "loop" /\ Len(stack) >= 2
  /\ Cardinality(OnBoard) >= 2
  /\ remaining_pieces # set_board_remaining(board)
=============================================================================
